---------------------------- MODULE Spec2Model ----------------------------
(***************************************************************************)
(* CO2 Balloon Apocalypse Simulator (src/app.py).                          *)
(*                                                                         *)
(* The science layer is six closed-form functions over Python floats, the  *)
(* Dash layer one callback, update, that the framework runs with the five  *)
(* slider values whenever one of them changes.                             *)
(*                                                                         *)
(* A Python float is an IEEE-754 binary64.  The model computes with        *)
(* binary64 values bit for bit: a finite float is a sign, a 53-bit         *)
(* mantissa and a binary exponent, and *, /, + round to nearest, ties to   *)
(* even, as the hardware does.  Mantissas do not fit TLC's 32-bit          *)
(* integers, so they are naturals held as sequences of 15-bit limbs,       *)
(* least significant first.  Exponents stay far inside binary64's range    *)
(* for every value the model builds, so infinities, NaN and subnormals     *)
(* are not represented.                                                    *)
(***************************************************************************)
EXTENDS Integers, Sequences, FiniteSets, TLC

-----------------------------------------------------------------------------
(* Arbitrary-precision naturals (Python int / the mantissa of a float).    *)

BASE == 2^15

Limb(a, i) == IF i >= 1 /\ i <= Len(a) THEN a[i] ELSE 0

Max(S) == CHOOSE m \in S : \A x \in S : x <= m

\* a without its leading zero limbs (a \o <<>> is a with every limb evaluated,
\* where a is given by a function constructor)
Trim(a) ==
    LET t == a \o <<>>
    IN  SubSeq(t, 1, Max({0} \cup {i \in 1..Len(t) : t[i] # 0}))

\* A Python int n, 0 <= n < 2^31
NatOf(n) == Trim(<<n % BASE, (n \div BASE) % BASE, n \div (BASE * BASE)>>)

\* The integer a, for a < 2^31
NatToInt(a) == Limb(a, 1) + BASE * Limb(a, 2) + BASE * BASE * Limb(a, 3)

NatCmp(a, b) ==
    IF Len(a) < Len(b) THEN -1
    ELSE IF Len(a) > Len(b) THEN 1
    ELSE LET D == {i \in 1..Len(a) : a[i] # b[i]}
         IN  IF D = {} THEN 0
             ELSE IF a[Max(D)] < b[Max(D)] THEN -1 ELSE 1

\* a + b.  The carry into limb i comes from the nearest lower limb whose sum
\* is not BASE - 1.
NatAdd(a, b) ==
    IF a = <<>> THEN b
    ELSE IF b = <<>> THEN a
    ELSE
    LET n    == (IF Len(a) > Len(b) THEN Len(a) ELSE Len(b)) + 1
        s(i) == Limb(a, i) + Limb(b, i)
        c(i) == /\ i > 1
                /\ \/ s(i - 1) >= BASE
                   \/ /\ s(i - 1) = BASE - 1
                      /\ \E j \in 1..(i - 2) :
                            /\ s(j) >= BASE
                            /\ \A k \in (j + 1)..(i - 2) : s(k) = BASE - 1
    IN  Trim([i \in 1..n |-> (s(i) + (IF c(i) THEN 1 ELSE 0)) % BASE])

\* a - b for a >= b.  The borrow into limb i comes from the nearest lower
\* limb where a and b differ.
NatSub(a, b) ==
    IF b = <<>> THEN a
    ELSE
    LET d(i) == Limb(a, i) - Limb(b, i)
        w(i) == /\ i > 1
                /\ \/ d(i - 1) < 0
                   \/ /\ d(i - 1) = 0
                      /\ \E j \in 1..(i - 2) :
                            /\ d(j) < 0
                            /\ \A k \in (j + 1)..(i - 2) : d(k) = 0
    IN  Trim([i \in 1..Len(a) |-> (d(i) - (IF w(i) THEN 1 ELSE 0)) % BASE])

\* a * d for a limb d < BASE: the low halves of the limb products plus their
\* high halves one limb up
NatMulSmall(a, d) ==
    IF a = <<>> \/ d = 0 THEN <<>>
    ELSE NatAdd(Trim([i \in 1..Len(a) |-> (a[i] * d) % BASE]),
                Trim(<<0>> \o [i \in 1..Len(a) |-> (a[i] * d) \div BASE]))

\* Limb k of a * b before carries: the low halves of the products
\* a[i] * b[k + 1 - i] and the high halves of the products a[i] * b[k - i]
RECURSIVE ColSum(_, _, _, _)
ColSum(a, b, k, i) ==
    IF i = 0 THEN 0
    ELSE ((a[i] * Limb(b, k + 1 - i)) % BASE)
         + ((a[i] * Limb(b, k - i)) \div BASE)
         + ColSum(a, b, k, i - 1)

NatMul(a, b) ==
    IF a = <<>> \/ b = <<>> THEN <<>>
    ELSE LET n   == Len(a) + Len(b)
             col == SubSeq([k \in 1..n |-> ColSum(a, b, k, Len(a))], 1, n)
         IN  NatAdd(Trim([k \in 1..n |-> col[k] % BASE]),
                    Trim(<<0>> \o [k \in 1..n |-> col[k] \div BASE]))

Reverse(a) == [i \in 1..Len(a) |-> a[Len(a) + 1 - i]]

\* The limbs of a[1..i] \div d, most significant first, r the running remainder
RECURSIVE DivS(_, _, _, _)
DivS(a, d, i, r) ==
    IF i = 0 THEN <<>>
    ELSE LET x == r * BASE + a[i]
         IN  <<x \div d>> \o DivS(a, d, i - 1, x % d)

\* a \div d for 0 < d < BASE
NatDivSmall(a, d) ==
    IF a = <<>> THEN <<>> ELSE Trim(Reverse(DivS(a, d, Len(a), 0)))

\* a * 2^k
NatShl(a, k) ==
    LET q == k \div 15
        r == k % 15
    IN  IF a = <<>> THEN <<>>
        ELSE
        Trim([i \in 1..(Len(a) + q + 1) |->
                ((Limb(a, i - q) * 2^r) % BASE)
                + (Limb(a, i - q - 1) \div 2^(15 - r))])

\* a \div 2^k
NatShr(a, k) ==
    LET q == k \div 15
        r == k % 15
    IN  IF q >= Len(a) THEN <<>>
        ELSE Trim([i \in 1..(Len(a) - q) |->
                     (Limb(a, i + q) \div 2^r)
                     + (Limb(a, i + q + 1) % 2^r) * 2^(15 - r)])

BitLenInt(n) == Cardinality({k \in 0..14 : 2^k <= n})

BitLen(a) == IF a = <<>> THEN 0 ELSE 15 * (Len(a) - 1) + BitLenInt(a[Len(a)])

\* whether a has a 1 among its k low bits
LowBits(a, k) ==
    \/ \E i \in 1..Len(a) : i <= k \div 15 /\ a[i] # 0
    \/ k \div 15 < Len(a) /\ a[k \div 15 + 1] % 2^(k % 15) # 0

NatBit(a, k) ==
    IF k \div 15 >= Len(a) THEN 0 ELSE (a[k \div 15 + 1] \div 2^(k % 15)) % 2

\* One digit of the long division, <<q, r - q * b>> for the largest q with
\* q * b <= r, where r < b * BASE and b has its top limb >= BASE / 2 (Knuth's
\* algorithm D: the estimate from the top limbs is at most 2 too large).
\* QuoFix lowers the estimate t, p = t * b, until p <= r.
RECURSIVE QuoFix(_, _, _, _)
QuoFix(r, b, t, p) ==
    IF NatCmp(p, r) <= 0 THEN <<t, NatSub(r, p)>>
    ELSE QuoFix(r, b, t - 1, NatSub(p, b))

QuoEst(r, b, n) ==
    IF Limb(r, n + 1) >= b[n] THEN BASE - 1
    ELSE (Limb(r, n + 1) * BASE + Limb(r, n)) \div b[n]

QuoDigit(r, b, t) == QuoFix(r, b, t, NatMulSmall(b, t))

QuoRem(r, b) == QuoDigit(r, b, QuoEst(r, b, Len(b)))

\* The limbs of the quotient of a[1..i] (below the running remainder r) by b,
\* most significant first, and after them the remainder; qr is the digit at
\* limb i with the remainder it leaves.
RECURSIVE LongDiv(_, _, _, _)
LongDivStep(a, b, i, qr) == <<qr[1]>> \o LongDiv(a, b, i - 1, qr[2])

LongDiv(a, b, i, r) ==
    IF i = 0 THEN <<r>>
    ELSE LongDivStep(a, b, i, QuoRem(Trim(<<a[i]>> \o r), b))

\* <<a \div b, a % b # 0>> for b > 0.  Both are scaled by 2^s so that b's top
\* limb has its high bit set; the top Len(b) - 1 limbs of a are below b and
\* start as the remainder, the other k limbs give the k digits.
DivResult(qr, k) == <<Trim(Reverse(SubSeq(qr, 1, k))), qr[k + 1] # <<>> >>

DivDigits(an, bn, k) ==
    DivResult(LongDiv(an, bn, k, SubSeq(an, k + 1, Len(an))), k)

DivScaled(an, bn) ==
    DivDigits(an, bn, IF Len(an) < Len(bn) THEN 0 ELSE Len(an) - Len(bn) + 1)

DivShift(a, b, s) == DivScaled(NatShl(a, s), NatShl(b, s))

NatDivSticky(a, b) ==
    IF NatCmp(a, b) = -1 THEN <<<<>>, a # <<>>>>
    ELSE DivShift(a, b, 15 - BitLenInt(b[Len(b)]))

\* floor of the cube root of a > 0, by Newton's iteration from x above it:
\* y is the next iterate, (2 * x + a \div x^2) \div 3
RECURSIVE CbrtIter(_, _)
CbrtStep(a, x, y) == IF NatCmp(y, x) = -1 THEN CbrtIter(a, y) ELSE x

CbrtIter(a, x) ==
    CbrtStep(a, x,
             NatDivSmall(
                 NatAdd(NatShl(x, 1), NatDivSticky(a, NatMul(x, x))[1]), 3))

\* floor of the cube root of T < 2^30
IntCbrt(T) ==
    CHOOSE n \in 0..1023 : n * n * n <= T /\ T < (n + 1) * (n + 1) * (n + 1)

\* floor of the cube root of a > 0.  The iteration starts above the root, at
\* the cube root of a's top 28 to 30 bits (a without its low 3 * k bits)
\* rounded up.
CbrtFrom(a, k) ==
    CbrtIter(a, NatShl(NatOf(IntCbrt(NatToInt(NatShr(a, 3 * k))) + 1), k))

NatCbrt(a) ==
    CbrtFrom(a, IF BitLen(a) <= 30 THEN 0 ELSE (BitLen(a) - 28) \div 3)

-----------------------------------------------------------------------------
(* Python floats: IEEE-754 binary64, round to nearest, ties to even.       *)
(* A finite float is (-1)^neg * man * 2^exp with 2^52 <= man < 2^53, or    *)
(* man = <<>> for zero.                                                    *)

Float(neg, man, exp) == [neg |-> neg, man |-> man, exp |-> exp]

FZero(neg) == Float(neg, <<>>, 0)

IsZero(x) == x.man = <<>>

IsNeg(x) == x.neg /\ ~IsZero(x)

\* The float nearest to (-1)^neg * (n + f) * 2^e, where n > 0 and 0 <= f < 1
\* with f # 0 iff sticky (sticky only with n of 55 bits or more): n loses its
\* sh low bits, q is what is left, r is q rounded.
RoundCarry(neg, r, e) ==
    IF BitLen(r) = 54 THEN Float(neg, NatShr(r, 1), e + 1)
    ELSE Float(neg, r, e)

RoundEven(neg, n, e, sticky, sh, q) ==
    RoundCarry(neg,
               IF /\ NatBit(n, sh - 1) = 1
                  /\ (sticky \/ LowBits(n, sh - 1) \/ NatBit(q, 0) = 1)
               THEN NatAdd(q, <<1>>) ELSE q,
               e + sh)

RoundShift(neg, n, e, sticky, sh) ==
    IF sh <= 0 THEN Float(neg, NatShl(n, -sh), e + sh)
    ELSE RoundEven(neg, n, e, sticky, sh, NatShr(n, sh))

Round(neg, n, e, sticky) == RoundShift(neg, n, e, sticky, BitLen(n) - 53)

\* The float nearest to (-1)^neg * (p / q) * 2^e, for naturals p, q > 0: p is
\* scaled by 2^k for a quotient of 55 bits or more.
RoundSticky(neg, qs, e) == Round(neg, qs[1], e, qs[2])

RoundScaled(neg, p, q, e, k) ==
    RoundSticky(neg, NatDivSticky(NatShl(p, k), q), e - k)

RoundQuot(neg, p, q, e) ==
    RoundScaled(neg, p, q, e,
                IF BitLen(p) < 55 + BitLen(q) THEN 55 + BitLen(q) - BitLen(p)
                ELSE 0)

\* float(n) for a Python int n
FromInt(n) ==
    IF n = 0 THEN FZero(FALSE)
    ELSE Round(n < 0, NatOf(IF n < 0 THEN -n ELSE n), 0, FALSE)

\* 10^k, k <= 18
Pow10(k) == IF k <= 9 THEN NatOf(10^k) ELSE NatMul(NatOf(10^9), NatOf(10^(k - 9)))

\* The float a decimal literal denotes: n / 10^k (n * 10^-k for k < 0)
FromDec(n, k) ==
    IF n = 0 THEN FZero(FALSE)
    ELSE IF k < 0
    THEN Round(n < 0, NatMul(NatOf(IF n < 0 THEN -n ELSE n), Pow10(-k)), 0, FALSE)
    ELSE RoundQuot(n < 0, NatOf(IF n < 0 THEN -n ELSE n), Pow10(k), 0)

\* The float a literal denotes, from float.hex() of the literal: the 53 bits
\* 1.f of 0x1.fp+e with their top 25 bits in hi and their low 28 in lo
FromHex(hi, lo, e) ==
    Float(FALSE,
          <<lo % 2^15, (lo \div 2^15) + (hi % 4) * 2^13, (hi \div 4) % 2^15,
            hi \div 2^17>>,
          e - 52)

\* x * y
FMul(x, y) ==
    IF IsZero(x) \/ IsZero(y) THEN FZero(x.neg # y.neg)
    ELSE Round(x.neg # y.neg, NatMul(x.man, y.man), x.exp + y.exp, FALSE)

\* x / y for y # 0 (Python raises ZeroDivisionError before dividing by zero)
FDiv(x, y) ==
    IF IsZero(x) THEN FZero(x.neg # y.neg)
    ELSE RoundQuot(x.neg # y.neg, x.man, y.man, x.exp - y.exp)

\* x + y for x, y >= 0, e the smaller exponent
FAddAt(x, y, e) ==
    Round(FALSE, NatAdd(NatShl(x.man, x.exp - e), NatShl(y.man, y.exp - e)),
          e, FALSE)

FAdd(x, y) ==
    IF IsZero(x) THEN y
    ELSE IF IsZero(y) THEN x
    ELSE FAddAt(x, y, IF x.exp < y.exp THEN x.exp ELSE y.exp)

\* M * M / 2^28 from the halves of M < 2^29, short of it by less than 3
Log2Sq(M) ==
    LET h == M \div 2^14
        l == M % 2^14
    IN  h * h + ((2 * h * l) \div 2^14) + ((l * l) \div 2^28)

\* S / 2^28 is in [1, 4): whether it reached 2, and S brought back to [1, 2)
Log2Bit(S) == IF S >= 2^29 THEN 1 ELSE 0
Log2Norm(S) == IF S >= 2^29 THEN S \div 2 ELSE S

\* The first 4 * k bits of the fraction of log2(M / 2^28), for
\* 2^28 <= M < 2^29: squaring doubles the logarithm, and the square reaching
\* 2 gives a 1 bit.  Four bits a step.
RECURSIVE Log2Frac(_, _)
Log2Frac(M, k) ==
    IF k = 0 THEN 0
    ELSE LET s1 == Log2Sq(M)
             s2 == Log2Sq(Log2Norm(s1))
             s3 == Log2Sq(Log2Norm(s2))
             s4 == Log2Sq(Log2Norm(s3))
         IN  (8 * Log2Bit(s1) + 4 * Log2Bit(s2) + 2 * Log2Bit(s3) + Log2Bit(s4))
                 * 16^(k - 1)
             + Log2Frac(Log2Norm(s4), k - 1)

\* ln 2 in units of 2^-30
LN2 == NatOf(744261118)

\* x ** (1/3) for x > 0 or x = +0.  The exponent the code passes is the float
\* nearest to 1/3, which is (1 - 2^-54) / 3, so the power is the cube root of
\* x * (1 - 2^-54 * ln x) up to a factor within 2^-89 of 1; its nearest float
\* is what libm's pow returns.
\*   r   x.exp % 3, so that x = man * 2^r * 8^((x.exp - r) / 3)
\*   a   man * 2^r * 8^PowScale
\*   E   the exponent of x as 1.f * 2^E
\*   L   |ln x / ln 2| in units of 2^-24, from E and the bits F of log2(1.f)
\*   a2  a * (1 - 2^-54 * ln x)
\*   c   floor of the cube root of a2
PowScale == 37

PowRound(x, r, L, a2, c) ==
    Round(FALSE, c, (x.exp - r) \div 3 - PowScale,
          L # <<>> \/ NatCmp(NatMul(NatMul(c, c), c), a2) # 0)

PowRoot(x, r, L, a2) == PowRound(x, r, L, a2, NatCbrt(a2))

PowTilt(x, r, E, L, a, t) ==
    PowRoot(x, r, L, IF E >= 0 THEN NatSub(a, t) ELSE NatAdd(a, t))

PowLn(x, r, E, L, a) ==
    PowTilt(x, r, E, L, a, NatShr(NatMul(NatMul(a, L), LN2), 108))

PowLog2(x, r, E, F) ==
    PowLn(x, r, E,
          IF E >= 0 THEN NatAdd(NatShl(NatOf(E), 24), F)
          ELSE NatSub(NatShl(NatOf(-E), 24), F),
          NatShl(x.man, r + 3 * PowScale))

PowThird(x) ==
    IF IsZero(x) THEN FZero(FALSE)
    ELSE PowLog2(x, x.exp % 3, x.exp + 52,
                 NatOf(Log2Frac(NatToInt(NatShr(x.man, 24)), 6)))

Signed(neg, n) == IF neg THEN -n ELSE n

\* int(x): truncation toward zero
FInt(x) ==
    Signed(x.neg, NatToInt(IF x.exp >= 0 THEN NatShl(x.man, x.exp)
                           ELSE NatShr(x.man, -x.exp)))

\* |x| * 10^d rounded to the nearest integer, ties to even (d <= 4):
\* n = man * 10^d loses its sh low bits, q is what is left
FRoundEven(n, sh, q) ==
    IF /\ sh > 0
       /\ NatBit(n, sh - 1) = 1
       /\ (LowBits(n, sh - 1) \/ NatBit(q, 0) = 1)
    THEN NatAdd(q, <<1>>) ELSE q

FRoundShift(n, sh) ==
    FRoundEven(n, sh, IF sh <= 0 THEN NatShl(n, -sh) ELSE NatShr(n, sh))

FRound(x, d) ==
    IF IsZero(x) THEN <<>>
    ELSE FRoundShift(NatMulSmall(x.man, 10^d), -x.exp)

\* format(x, ".<d>f") as the integer its digits spell, for |x| * 10^d < 2^31
FFixed(x, d) == Signed(x.neg, NatToInt(FRound(x, d)))

-----------------------------------------------------------------------------
(* Python values of the science layer: a float, a complex number, or an    *)
(* exception raised instead of a value.                                    *)

PyFloat(x) == [type |-> "float", val |-> x]

PyComplex(re, im) == [type |-> "complex", real |-> re, imag |-> im]

PyRaise(e) == [type |-> "raise", exc |-> e]

\* math.pi = 0x1.921fb54442d18p+1
math_pi == FromHex(\h1921fb5, \h4442d18, 1)

\* cos and sin of math.pi * (1/3), the phase of a negative float raised to
\* the power 1/3: 0.5000000000000001 = 0x1.0000000000001p-1 and
\* 0.8660254037844386 = 0x1.bb67ae8584caap-1
CosPhase == FromHex(\h1000000, \h0000001, -1)
SinPhase == FromHex(\h1bb67ae, \h8584caa, -1)

\* x ** (1/3), len the power of |x|.  For x < 0 Python raises nothing:
\* float.__pow__ hands a negative base with a fractional exponent to
\* complex.__pow__, which returns |x| ** (1/3) at the phase pi / 3.
PowPolar(neg, len) ==
    IF neg THEN PyComplex(FMul(len, CosPhase), FMul(len, SinPhase))
    ELSE PyFloat(len)

Pow(x) == PowPolar(IsNeg(x), PowThird(Float(FALSE, x.man, x.exp)))

\* k * v for a real k and a float or complex v
Times(k, v) ==
    IF v.type = "complex"
    THEN PyComplex(FMul(k, v.real), FMul(k, v.imag))
    ELSE PyFloat(FMul(k, v.val))

-----------------------------------------------------------------------------
(* 1. SCIENCE LAYER                                                        *)

\* 8.1e9 = 0x1.e2cc310000000p+32
WORLD_POP == FromHex(\h1e2cc31, \h0000000, 32)

\* 5.5 = 0x1.6000000000000p+2
GIRAFFE_HT == FromHex(\h1600000, \h0000000, 2)

LA_DENSITY == 6000

\* The literals of the science layer and of update.  An int becomes a float
\* where it meets one; 1e6 = 0x1.e848000000000p+19,
\* 0.0224 = 0x1.6f0068db8bac7p-6, 11.37 = 0x1.6bd70a3d70a3dp+3.
Lit365 == FromInt(365)
Lit1e6 == FromHex(\h1e84800, \h0000000, 19)
Lit44 == FromInt(44)
Lit0_0224 == FromHex(\h16f0068, \hdb8bac7, -6)
Lit2 == FromInt(2)
Lit3 == FromInt(3)
Lit4 == FromInt(4)
Lit318 == FromInt(318)
Lit11_37 == FromHex(\h16bd70a, \h3d70a3d, 3)

\* The default arguments of lethal_radius and victim_estimate:
\* 1.6e6 = 0x1.86a0000000000p+20, 0.35 = 0x1.6666666666666p-2
nyos_mass_t_default == FromHex(\h186a000, \h0000000, 20)
nyos_radius_km_default == FromInt(25)
density_default == FromInt(LA_DENSITY)
lethality_default == FromHex(\h1666666, \h6666666, -2)

\* The locals of soda_emissions at its return, the module global WORLD_POP
\* read as pop; one operator a line of the function, each handing the locals
\* so far to the next.
soda_volume(daily_litres, daily_g, daily_t, moles) ==
    [daily_litres |-> daily_litres, daily_g |-> daily_g, daily_t |-> daily_t,
     moles |-> moles, volume_m3 |-> FMul(moles, Lit0_0224)]

soda_moles(daily_litres, daily_g, daily_t) ==
    soda_volume(daily_litres, daily_g, daily_t, FDiv(daily_g, Lit44))

soda_tonnes(daily_litres, daily_g) ==
    soda_moles(daily_litres, daily_g, FDiv(daily_g, Lit1e6))

soda_grams(daily_litres, g_co2_per_l) ==
    soda_tonnes(daily_litres, FMul(daily_litres, g_co2_per_l))

\* soda_locals with a year of 366 days
soda_locals_366(pop, litres_per_capita_yr, g_co2_per_l) ==
    soda_grams(FDiv(FMul(pop, litres_per_capita_yr), FromInt(366)),
               g_co2_per_l)

\* soda_locals with // for /: daily_litres a whole number of litres
soda_locals_floordiv(pop, litres_per_capita_yr, g_co2_per_l) ==
    LET q == FDiv(FMul(pop, litres_per_capita_yr), Lit365)
        n == NatShr(q.man, -q.exp)
    IN  soda_grams(IF IsZero(q) \/ q.exp >= 0 THEN q
                   ELSE IF n = <<>> THEN FZero(FALSE)
                   ELSE Round(FALSE, n, 0, FALSE),
                   g_co2_per_l)

soda_locals(pop, litres_per_capita_yr, g_co2_per_l) ==
    soda_grams(FDiv(FMul(pop, litres_per_capita_yr), Lit365), g_co2_per_l)

soda_return(v) == [t |-> v.daily_t, m3 |-> v.volume_m3]

soda_emissions_of(pop, litres_per_capita_yr, g_co2_per_l) ==
    soda_return(soda_locals(pop, litres_per_capita_yr, g_co2_per_l))

soda_emissions(litres_per_capita_yr, g_co2_per_l) ==
    soda_emissions_of(WORLD_POP, litres_per_capita_yr, g_co2_per_l)

\* car_emissions dividing by 1e3: kilograms for tonnes
car_emissions_kg(n_cars, miles_per_day, g_co2_mile) ==
    FDiv(FMul(FMul(n_cars, miles_per_day), g_co2_mile), FromInt(1000))

car_emissions(n_cars, miles_per_day, g_co2_mile) ==
    FDiv(FMul(FMul(n_cars, miles_per_day), g_co2_mile), Lit1e6)

flight_emissions(n_flights, t_co2_per_flight) ==
    FMul(n_flights, t_co2_per_flight)

\* sphere_diameter returning the radius
sphere_diameter_radius(volume_m3) ==
    Pow(FDiv(FMul(Lit3, volume_m3), FMul(Lit4, math_pi)))

sphere_diameter(volume_m3) ==
    LET r == Pow(FDiv(FMul(Lit3, volume_m3), FMul(Lit4, math_pi)))
    IN  Times(Lit2, r)

\* lethal_radius without the cube root
lethal_radius_linear(daily_t, nyos_mass_t, nyos_radius_km) ==
    IF IsZero(nyos_mass_t) THEN PyRaise("ZeroDivisionError")
    ELSE Times(nyos_radius_km, PyFloat(FDiv(daily_t, nyos_mass_t)))

\* lethal_radius with the ratio upside down
lethal_radius_inverse(daily_t, nyos_mass_t, nyos_radius_km) ==
    IF IsZero(daily_t) THEN PyRaise("ZeroDivisionError")
    ELSE Times(nyos_radius_km, Pow(FDiv(nyos_mass_t, daily_t)))

lethal_radius(daily_t, nyos_mass_t, nyos_radius_km) ==
    IF IsZero(nyos_mass_t) THEN PyRaise("ZeroDivisionError")
    ELSE Times(nyos_radius_km, Pow(FDiv(daily_t, nyos_mass_t)))

\* victim_estimate with round() for int()
victim_estimate_round(kill_r_km, density, lethality) ==
    FFixed(FMul(FMul(FMul(math_pi, FMul(kill_r_km, kill_r_km)), density),
                lethality), 0)

\* kill_r_km a float; the result a Python int
victim_estimate(kill_r_km, density, lethality) ==
    LET area == FMul(math_pi, FMul(kill_r_km, kill_r_km))
    IN  FInt(FMul(FMul(area, density), lethality))

-----------------------------------------------------------------------------
(* 2. DASH LAYER                                                           *)

\* The callback.  Its result is the exception it raises, or its locals with
\* the three outputs it returns: block (the numbers of the metric text as
\* the integers their digits spell), bar (y and text of the bar chart) and
\* polar (r and the radial axis range).

\* Lines 129 to 163: the outputs from the locals
update_figures(soda, car_t, flight_t, dia, giraffes, kill_r, deaths) ==
    [type |-> "ok",
     soda |-> soda, car_t |-> car_t, flight_t |-> flight_t,
     dia |-> dia, giraffes |-> giraffes, kill_r |-> kill_r, deaths |-> deaths,
     block |-> <<FFixed(soda.t, 0), FFixed(soda.m3, 0), FFixed(dia, 0),
                 FFixed(giraffes, 1), FFixed(kill_r, 1), deaths>>,
     bar |-> [y    |-> <<soda.t, car_t, flight_t>>,
              text |-> <<FFixed(soda.t, 0), FFixed(car_t, 0),
                         FFixed(flight_t, 0)>>],
     polar |-> [r     |-> <<FZero(FALSE), kill_r>>,
                range |-> <<FZero(FALSE), FAdd(kill_r, FromInt(1))>>]]

\* Lines 125 and 127.  A zero division in lethal_radius has left update
\* already; a complex kill_r (soda["t"] < 0, and then dia is complex too)
\* makes int() raise TypeError in victim_estimate.
update_victims(soda, car_t, flight_t, dia, kill_r) ==
    IF kill_r.type = "raise" THEN kill_r
    ELSE IF kill_r.type = "complex" THEN PyRaise("TypeError")
    ELSE update_figures(soda, car_t, flight_t, dia.val,
                        FDiv(dia.val, GIRAFFE_HT), kill_r.val,
                        victim_estimate(kill_r.val, density_default,
                                        lethality_default))

\* Lines 124 and 126
update_sizes(soda, car_t, flight_t) ==
    update_victims(soda, car_t, flight_t, sphere_diameter(soda.m3),
                   lethal_radius(soda.t, nyos_mass_t_default,
                                 nyos_radius_km_default))

\* Lines 120 to 122
update(lpc, gpl, cars, miles, flights) ==
    update_sizes(soda_emissions(lpc, gpl), car_emissions(cars, miles, Lit318),
                 flight_emissions(flights, Lit11_37))

\* The lpc slider with min=0
LpcValuesFromZero == {0, 2347, 5000}

\* The layout's sliders, each with the values it is moved between: the ends
\* of its range and its initial value.  lpc in hundredths of a litre, gpl in
\* tenths of a gram.
LpcValues == {500, 2347, 5000}
GplValues == {20, 60, 100}
CarsValues == {1000000, 10000000, 20000000}
MilesValues == {5, 30, 100}
FlightsValues == {1000, 6000, 10000}

Sliders == {"lpc", "gpl", "cars", "miles", "flights"}

SliderValues(id) ==
    CASE id = "lpc"     -> LpcValues
      [] id = "gpl"     -> GplValues
      [] id = "cars"    -> CarsValues
      [] id = "miles"   -> MilesValues
      [] id = "flights" -> FlightsValues

\* The number a slider hands to the callback
lpc_number(v) == FromDec(v, 2)
gpl_number(v) == FromDec(v, 1)

\* Slider changes in a behaviour
MaxChanges == 3

VARIABLES
    value,              \* the value property of each slider
    metrics_children,   \* the children of the metrics Div
    bar_figure,         \* the figure of the bar Graph
    polar_figure,       \* the figure of the polar Graph
    frame,              \* what the last run of update left: its locals and
                        \* outputs, or the exception it raised
    changes,            \* slider changes so far
    cycles,             \* runs of update so far
    call                \* the call of a science-layer function in progress

vars == <<value, metrics_children, bar_figure, polar_figure, frame, changes,
          cycles, call>>

outputs == <<metrics_children, bar_figure, polar_figure>>

\* The layout as constructed: the sliders at their initial values, the
\* metrics Div and the two Graphs empty, no callback run yet, no call of the
\* science layer in progress.
Init ==
    /\ value = [lpc |-> 2347, gpl |-> 60, cars |-> 10000000, miles |-> 30,
                flights |-> 6000]
    /\ metrics_children = <<>>
    /\ bar_figure = [y |-> <<>>, text |-> <<>>]
    /\ polar_figure = [r |-> <<>>, range |-> <<>>]
    /\ frame = [type |-> "none"]
    /\ changes = 0
    /\ cycles = 0
    /\ call = [fn |-> "none"]

\* Dash writes what the callback returned to the three Outputs; a callback
\* that raised writes nothing.
Render(out) ==
    /\ frame' = out
    /\ IF out.type = "ok"
       THEN /\ metrics_children' = out.block
            /\ bar_figure' = out.bar
            /\ polar_figure' = out.polar
       ELSE UNCHANGED outputs

\* Dash runs the callback with the values v of the five Inputs
Callback(v) ==
    /\ cycles' = cycles + 1
    /\ \E out \in {update(lpc_number(v.lpc), gpl_number(v.gpl),
                          FromInt(v.cars), FromInt(v.miles),
                          FromInt(v.flights))} :
          Render(out)

\* The page is loaded: Dash calls the callback once with the initial values
PageLoad ==
    /\ cycles = 0
    /\ Callback(value)
    /\ UNCHANGED <<value, changes, call>>

\* SetValue with Input("miles", "value") missing from the callback's inputs
SetValueMilesUnwired(id, v) ==
    /\ cycles >= 1
    /\ changes < MaxChanges
    /\ v # value[id]
    /\ value' = [value EXCEPT ![id] = v]
    /\ changes' = changes + 1
    /\ IF id = "miles" THEN UNCHANGED <<outputs, frame, cycles>>
       ELSE Callback([value EXCEPT ![id] = v])
    /\ UNCHANGED call

\* The user moves slider id to v: the change of an Input runs the callback
\* with the values of all five
SetValue(id, v) ==
    /\ cycles >= 1
    /\ changes < MaxChanges
    /\ v # value[id]
    /\ value' = [value EXCEPT ![id] = v]
    /\ changes' = changes + 1
    /\ Callback([value EXCEPT ![id] = v])
    /\ UNCHANGED call

Next ==
    \/ PageLoad
    \/ \E id \in Sliders : \E v \in SliderValues(id) : SetValue(id, v)

Spec == Init /\ [][Next]_vars

-----------------------------------------------------------------------------
(* The science layer called on its own: a call takes the arguments and     *)
(* holds what the function returned, or raised, until it is collected.     *)

\* Arguments the functions are called with.  Litres and radii in hundredths,
\* grams per litre in tenths, tonnes per flight in hundredths, lethality in
\* hundredths; the rest are Python ints.
LpcCalls == {0, 500, 2347, 5000}
GplCalls == {0, 20, 60, 100}
CarCalls == {0, 1, 10000000, 20000000}
MileCalls == {0, 30, 100}
GramCalls == {318, 404}
FlightCalls == {0, 6000, 10000}
TonneCalls == {900, 1137}
VolumeCalls == {-1590933, -8, 0, 1, 8, 1000, 1590933, 5648817}
MassCalls == {-1000, 0, 1, 3125, 798771, 1600000, 3200000}
RefMassCalls == {0, 798771, 1600000}
RefRadiusCalls == {10, 25}
RadiusCalls == {0, 1, 100, 313, 477, 1983, 2500}
DensityCalls == {0, 6000}
LethalityCalls == {0, 35, 100, 150}

page == <<value, metrics_children, bar_figure, polar_figure, frame, changes,
          cycles>>

CallSoda(l, g) ==
    /\ call.fn = "none"
    /\ call' = [fn |-> "soda_emissions", args |-> <<l, g>>,
                locals |-> soda_locals(WORLD_POP, lpc_number(l),
                                       gpl_number(g)),
                ret |-> soda_emissions(lpc_number(l), gpl_number(g))]
    /\ UNCHANGED page

CallCar(n, m, g) ==
    /\ call.fn = "none"
    /\ call' = [fn |-> "car_emissions", args |-> <<n, m, g>>,
                ret |-> car_emissions(FromInt(n), FromInt(m), FromInt(g))]
    /\ UNCHANGED page

CallFlight(n, t) ==
    /\ call.fn = "none"
    /\ call' = [fn |-> "flight_emissions", args |-> <<n, t>>,
                ret |-> flight_emissions(FromInt(n), FromDec(t, 2))]
    /\ UNCHANGED page

CallSphere(v) ==
    /\ call.fn = "none"
    /\ call' = [fn |-> "sphere_diameter", args |-> <<v>>,
                ret |-> sphere_diameter(FromInt(v))]
    /\ UNCHANGED page

CallLethal(m, ref, km) ==
    /\ call.fn = "none"
    /\ call' = [fn |-> "lethal_radius", args |-> <<m, ref, km>>,
                ret |-> lethal_radius(FromInt(m), FromInt(ref), FromInt(km))]
    /\ UNCHANGED page

CallVictim(r, d, l) ==
    /\ call.fn = "none"
    /\ call' = [fn |-> "victim_estimate", args |-> <<r, d, l>>,
                ret |-> victim_estimate(FromDec(r, 2), FromInt(d),
                                        FromDec(l, 2))]
    /\ UNCHANGED page

\* The caller collects the result
Return ==
    /\ call.fn # "none"
    /\ call' = [fn |-> "none"]
    /\ UNCHANGED page

NextCalls ==
    \/ \E l \in LpcCalls, g \in GplCalls : CallSoda(l, g)
    \/ \E n \in CarCalls, m \in MileCalls, g \in GramCalls : CallCar(n, m, g)
    \/ \E n \in FlightCalls, t \in TonneCalls : CallFlight(n, t)
    \/ \E v \in VolumeCalls : CallSphere(v)
    \/ \E m \in MassCalls, ref \in RefMassCalls, km \in RefRadiusCalls :
          CallLethal(m, ref, km)
    \/ \E r \in RadiusCalls, d \in DensityCalls, l \in LethalityCalls :
          CallVictim(r, d, l)
    \/ Return

SpecCalls == Init /\ [][NextCalls]_vars

-----------------------------------------------------------------------------
(* Properties                                                              *)

\* Comparison of floats: -1, 0, 1 as x < y, x = y, x > y
FCmpAbs(x, y) ==
    IF IsZero(x) THEN (IF IsZero(y) THEN 0 ELSE -1)
    ELSE IF IsZero(y) THEN 1
    ELSE IF x.exp < y.exp THEN -1
    ELSE IF x.exp > y.exp THEN 1
    ELSE NatCmp(x.man, y.man)

FCmp(x, y) ==
    IF IsNeg(x) THEN (IF IsNeg(y) THEN FCmpAbs(y, x) ELSE -1)
    ELSE IF IsNeg(y) THEN 1
    ELSE FCmpAbs(x, y)

\* x <= y
FLe(x, y) == FCmp(x, y) <= 0

\* a / b is within 2^-40 of 1, for floats a, b > 0
\* (1 - 2^-40 = 0x1.fffffffffe000p-1, 1 + 2^-40 = 0x1.0000000001000p+0)
Near(a, b) ==
    /\ ~IsZero(a) /\ ~a.neg
    /\ FLe(FromHex(\h1ffffff, \hfffe000, -1), FDiv(a, b))
    /\ FLe(FDiv(a, b), FromHex(\h1000000, \h0001000, 0))

\* x > 0
Positive(x) == ~IsZero(x) /\ ~x.neg

\* The natural number millions * 10^6 + units
Big(millions, units) == NatAdd(NatMul(NatOf(millions), Pow10(6)), NatOf(units))

\* The scenario-1 call: soda_emissions(23.47, 6) with WORLD_POP = 8.1e9
Scenario1 ==
    /\ call.fn = "soda_emissions"
    /\ call.args = <<2347, 60>>
    /\ WORLD_POP = FromDec(81, -8)

\* The locals of a soda_emissions call obey the five formulas, each up to
\* the rounding of its operation
SodaFormulas(v, pop, l, g) ==
    /\ Near(FMul(v.daily_litres, FromInt(365)), FMul(pop, l))
    /\ Near(v.daily_g, FMul(v.daily_litres, g))
    /\ Near(FMul(v.daily_t, FromDec(1, -6)), v.daily_g)
    /\ Near(FMul(v.moles, FromInt(44)), v.daily_g)
    /\ Near(v.volume_m3, FMul(v.moles, FromDec(224, 4)))

\* C1 (as amended): soda_emissions with 23.47 L per capita and year, 6 g/L
\* and a world population of 8.1e9 yields daily_litres ~ 520,841,096,
\* daily_g ~ 3,125,046,575, a daily mass ~ 3,125 t, moles ~ 71,023,786 and a
\* gas volume ~ 1,590,933 m3 (each the value rounded to an integer), where
\* daily_litres = population * rate / 365, daily_g = daily_litres * g/L,
\* tonnes = daily_g / 1e6, moles = daily_g / 44, volume = moles * 0.0224.
C1_Scenario1 ==
    Scenario1 =>
        /\ FRound(call.locals.daily_litres, 0) = Big(520, 841096)
        /\ FRound(call.locals.daily_g, 0) = Big(3125, 46575)
        /\ FRound(call.locals.daily_t, 0) = Big(0, 3125)
        /\ FRound(call.locals.moles, 0) = Big(71, 23786)
        /\ FRound(call.locals.volume_m3, 0) = Big(1, 590933)
        /\ call.ret = [t |-> call.locals.daily_t,
                       m3 |-> call.locals.volume_m3]
        /\ SodaFormulas(call.locals, WORLD_POP, FromDec(2347, 2), FromInt(6))

\* C1 witness: the scenario-1 call has returned 3,125 t and 1,590,933 m3
C1_Witness ==
    /\ Scenario1
    /\ FFixed(call.ret.t, 0) = 3125
    /\ FFixed(call.ret.m3, 0) = 1590933

\* C1 as the specification states it: the same call yields daily_litres ~
\* 133,128,493, daily_grams ~ 798,770,958,000, ~ 798,771 t, moles ~
\* 18,154,068,136 and a volume ~ 406,651,126 m3.
C1_Original ==
    Scenario1 =>
        /\ FRound(call.locals.daily_litres, 0) = Big(133, 128493)
        /\ FRound(call.locals.daily_g, 0) = Big(798770, 958000)
        /\ FRound(call.locals.daily_t, 0) = Big(0, 798771)
        /\ FRound(call.locals.moles, 0) = Big(18154, 68136)
        /\ FRound(call.locals.volume_m3, 0) = Big(406, 651126)

\* The scenario-4 call: lethal_radius(798771, 1.6e6, 25)
Scenario4 ==
    /\ call.fn = "lethal_radius"
    /\ call.args = <<798771, 1600000, 25>>

\* r^3 * ref_mass is ref_radius^3 * mass up to rounding
CubeLaw(r, m, ref, km) ==
    Near(FMul(FMul(FMul(r, r), r), FromInt(ref)),
         FMul(FMul(FMul(FromInt(km), FromInt(km)), FromInt(km)), FromInt(m)))

\* C2 (as amended): lethal_radius(798771, 1.6e6, 25) ~ 19.8 km, where
\* lethal_radius(m, ref_mass, ref_radius) = ref_radius * (m / ref_mass)^(1/3):
\* the returned radius r satisfies r^3 * 1.6e6 ~ 25^3 * 798771 and r rounds
\* to 19.8.
C2_Scenario4 ==
    Scenario4 =>
        /\ call.ret.type = "float"
        /\ FFixed(call.ret.val, 1) = 198
        /\ CubeLaw(call.ret.val, 798771, 1600000, 25)

\* C2 witness: the scenario-4 call has returned 19.8 km
C2_Witness ==
    /\ Scenario4
    /\ call.ret.type = "float"
    /\ FFixed(call.ret.val, 1) = 198

\* C2 as the specification states it: the returned radius satisfies the cube
\* law and rounds to 21.1.
C2_Original ==
    Scenario4 =>
        /\ call.ret.type = "float"
        /\ FFixed(call.ret.val, 1) = 211
        /\ CubeLaw(call.ret.val, 798771, 1600000, 25)

\* C3: a negative volume passed to sphere_diameter, or a zero reference mass
\* passed to lethal_radius, makes the call raise; no value is returned.
C3_DomainErrorsRaise ==
    /\ call.fn = "sphere_diameter" /\ call.args[1] < 0
           => call.ret.type = "raise"
    /\ call.fn = "lethal_radius" /\ call.args[2] = 0
           => call.ret.type = "raise"

\* r with both results doubled
Doubled(r) == [t |-> FMul(Lit2, r.t), m3 |-> FMul(Lit2, r.m3)]

\* C4: for non-negative inputs soda_emissions returns a mass and a volume
\* that are non-negative, both zero when an input is zero, and exactly twice
\* as large for twice the per-capita rate and for twice the population.
C4_SodaLinear ==
    call.fn = "soda_emissions" =>
        /\ ~call.ret.t.neg /\ ~call.ret.m3.neg
        /\ call.args[1] = 0 \/ call.args[2] = 0
               => IsZero(call.ret.t) /\ IsZero(call.ret.m3)
        /\ call.args[1] > 0 /\ call.args[2] > 0
               => Positive(call.ret.t) /\ Positive(call.ret.m3)
        /\ soda_emissions(FMul(Lit2, lpc_number(call.args[1])),
                          gpl_number(call.args[2])) = Doubled(call.ret)
        /\ soda_emissions_of(FMul(Lit2, WORLD_POP), lpc_number(call.args[1]),
                             gpl_number(call.args[2])) = Doubled(call.ret)

\* C4 witness: a call with both inputs positive has returned a positive mass
\* and volume
C4_Witness ==
    /\ call.fn = "soda_emissions"
    /\ call.args = <<2347, 60>>
    /\ Positive(call.ret.t)
    /\ Positive(call.ret.m3)

\* pi to ten digits, from below and from above, in units of 10^-9
PiBelow == Big(3141, 592653)
PiAbove == Big(3141, 592654)

\* floor(p * r^2 * d * l / 10^15) for a radius r and a lethality l in
\* hundredths and p in units of 10^-9: the floor of p * radius^2 * density *
\* lethality
FloorOf(p, r, d, l) ==
    NatToInt(NatDivSticky(NatMul(p, NatMul(NatOf(r * r), NatOf(d * l))),
                          NatMul(Pow10(9), Pow10(6)))[1])

\* C5: victim_estimate(radius, density, lethality) is non-negative and never
\* smaller than for a smaller radius, for non-negative inputs; it is the
\* integer floor(pi * radius^2 * density * lethality), also for a lethality
\* above 1, which is not clamped.
C5_VictimFloor ==
    call.fn = "victim_estimate" =>
        /\ call.ret >= 0
        /\ FloorOf(PiBelow, call.args[1], call.args[2], call.args[3])
               <= call.ret
        /\ call.ret
               <= FloorOf(PiAbove, call.args[1], call.args[2], call.args[3])
        /\ \A r \in RadiusCalls :
              r <= call.args[1] =>
                  victim_estimate(FromDec(r, 2), FromInt(call.args[2]),
                                  FromDec(call.args[3], 2)) <= call.ret

\* C5 witness: victim_estimate(3.13, 6000, 1.5) has returned 277,000, more
\* than the 184,667 people of the area
C5_Witness ==
    /\ call.fn = "victim_estimate"
    /\ call.args = <<313, 6000, 150>>
    /\ call.ret = 277000

\* C6: lethal_radius is never smaller for a larger mass, over masses >= 0
\* with a positive reference mass and radius, and it returns the reference
\* radius exactly for the reference mass; lethal_radius(1.6e6) with the
\* default Nyos constants is 25.
C6_LethalMonotone ==
    /\ lethal_radius(FromDec(16, -5), nyos_mass_t_default,
                     nyos_radius_km_default) = PyFloat(FromInt(25))
    /\ call.fn = "lethal_radius" /\ call.args[1] >= 0 /\ call.args[2] > 0 =>
        /\ call.ret.type = "float"
        /\ call.args[1] = call.args[2]
               => call.ret.val = FromInt(call.args[3])
        /\ \A m \in MassCalls :
              0 <= m /\ m <= call.args[1] =>
                  FLe(lethal_radius(FromInt(m), FromInt(call.args[2]),
                                    FromInt(call.args[3])).val,
                      call.ret.val)

\* C6 witness: lethal_radius(1.6e6, 1.6e6, 25) has returned 25.0
C6_Witness ==
    /\ call.fn = "lethal_radius"
    /\ call.args = <<1600000, 1600000, 25>>
    /\ call.ret = PyFloat(FromInt(25))

\* C7: sphere_diameter(0) is 0, sphere_diameter is never smaller for a
\* larger volume over volumes >= 0, and the diameter d of a volume V > 0
\* satisfies pi * d^3 = 6 * V up to rounding.
C7_SphereDiameter ==
    call.fn = "sphere_diameter" /\ call.args[1] >= 0 =>
        /\ call.ret.type = "float"
        /\ call.args[1] = 0 => call.ret.val = FZero(FALSE)
        /\ call.args[1] > 0 =>
              Near(FMul(math_pi,
                        FMul(FMul(call.ret.val, call.ret.val), call.ret.val)),
                   FromInt(6 * call.args[1]))
        /\ \A v \in VolumeCalls :
              0 <= v /\ v <= call.args[1] =>
                  FLe(sphere_diameter(FromInt(v)).val, call.ret.val)

\* C7 witness: sphere_diameter(1000) has returned 12.407 m
C7_Witness ==
    /\ call.fn = "sphere_diameter"
    /\ call.args = <<1000>>
    /\ FFixed(call.ret.val, 3) = 12407

\* C8: car_emissions(fleet_size, miles, grams_per_mile) returns fleet_size *
\* miles * grams_per_mile / 1e6 tonnes a day and never fails, 95,400 exactly
\* for 10e6 cars at 30 miles and 318 g/mile, and every update cycle calls it
\* with 318 g/mile: the car_t of a cycle and the second bar are the whole
\* number (cars / 1e6) * miles * 318.
C8_CarEmissions ==
    cycles >= 1 =>
        /\ frame.type = "ok"
        /\ value.cars % 1000000 = 0
        /\ frame.car_t
               = FromInt((value.cars \div 1000000) * value.miles * 318)
        /\ bar_figure.y[2] = frame.car_t
        /\ value.cars = 10000000 /\ value.miles = 30
               => /\ frame.car_t = FromInt(95400)
                  /\ bar_figure.text[2] = 95400

\* C8 witness: a cycle with 10e6 cars at 30 miles has computed 95,400 t
C8_Witness ==
    /\ cycles >= 1
    /\ value.cars = 10000000 /\ value.miles = 30
    /\ frame.type = "ok"
    /\ frame.car_t = FromInt(95400)

\* The page shows what update returns for the numbers v
Shows(out) ==
    /\ out.type = "ok"
    /\ frame = out
    /\ metrics_children = out.block
    /\ bar_figure = out.bar
    /\ polar_figure = out.polar

\* C9: every change of an input runs update exactly once, to its end, before
\* anything is rendered, and what is rendered depends on the five values of
\* that run only: after the page load and any number of changes there have
\* been one run for the load and one for each change, and the page shows
\* what update returns for the values the sliders have now.
C9_OneCyclePerChange ==
    /\ cycles = 0 =>
          changes = 0 /\ frame.type = "none" /\ metrics_children = <<>>
    /\ cycles >= 1 =>
          /\ cycles = changes + 1
          /\ Shows(update(lpc_number(value.lpc), gpl_number(value.gpl),
                          FromInt(value.cars), FromInt(value.miles),
                          FromInt(value.flights)))

\* C9 witness: after three changes that leave only the lpc slider away from
\* its initial value, at 50, the page shows the fourth run with its 6,658 t
\* of soda
C9_Witness ==
    /\ changes = 3
    /\ cycles = 4
    /\ value = [lpc |-> 5000, gpl |-> 60, cars |-> 10000000, miles |-> 30,
                flights |-> 6000]
    /\ bar_figure.text = <<6658, 95400, 68220>>

\* The values of the sliders are inside the ranges of the layout
InRange ==
    /\ 500 <= value.lpc /\ value.lpc <= 5000
    /\ 20 <= value.gpl /\ value.gpl <= 100
    /\ 1000000 <= value.cars /\ value.cars <= 20000000
    /\ 5 <= value.miles /\ value.miles <= 100
    /\ 1000 <= value.flights /\ value.flights <= 10000

\* C10: the sliders keep the five inputs inside their ranges (litres in
\* [5, 50], g/L in [2, 10], cars in [1e6, 2e7], miles in [5, 100], flights in
\* [1000, 10000]), and there update raises nothing and the daily soda mass,
\* the gas volume, the diameter, the giraffes, the kill radius, the car
\* tonnes and the flight tonnes are > 0 and the deaths >= 0.
C10_PositiveInRange ==
    cycles >= 1 =>
        /\ InRange
        /\ frame.type = "ok"
        /\ Positive(frame.soda.t)
        /\ Positive(frame.soda.m3)
        /\ Positive(frame.dia)
        /\ Positive(frame.giraffes)
        /\ Positive(frame.kill_r)
        /\ Positive(frame.car_t)
        /\ Positive(frame.flight_t)
        /\ frame.deaths >= 0

\* C10 witness: a cycle with the litres and the grams at the low end of
\* their ranges has estimated 11,048 deaths
C10_Witness ==
    /\ cycles >= 1
    /\ value.lpc = 500 /\ value.gpl = 20
    /\ frame.type = "ok"
    /\ frame.deaths = 11048

=============================================================================
